---- MODULE Spec2Model ----
(***************************************************************************)
(* Delta synchronisation of product master data (sundaygolf mediator).     *)
(*                                                                         *)
(* The model follows backend/mediator/controllers/sync_logic.py            *)
(* (SyncService.run_delta_sync), the APScheduler job that drives it        *)
(* (controllers/scheduler.py) and the legacy downstream client             *)
(* (services/shiphero_client.py).  The database is modelled as committed   *)
(* tables (mirror, cursor, runs, errors) plus the pending changes of the   *)
(* run's SQLAlchemy session (run, dirty): db.commit() makes the pending    *)
(* changes durable, a process crash discards them.                         *)
(*                                                                         *)
(* Further parts follow the services package: the downstream client       *)
(* services/shiphero_service.py (ShipHeroService: mutation-shape           *)
(* detection, payload filtering, create_product, update_product), the      *)
(* upstream client services/fulfil_service.py (FulfilService: paging) and  *)
(* the orchestrator services/product_sync_service.py                       *)
(* (ProductSyncService.sync_all_products, started by the periodic_sync     *)
(* thread of app.py).  Each part has its own initial condition and         *)
(* next-state relation; the variables of the other parts stay at their     *)
(* rest values.                                                            *)
(***************************************************************************)
EXTENDS Integers, Sequences, FiniteSets, TLC

(* ------------------------------ bounds --------------------------------- *)
\* number of upstream products
NumProducts == 2
\* last instant of the model clock
MaxTs == 3
\* number of runs a behaviour may create
MaxRuns == 2
\* number of process crashes in a behaviour
MaxCrashes == 1
\* number of upstream modifications in a behaviour
MaxMods == 1
\* most fire times the scheduler can find due at one wake-up
MaxDue == 2
\* last instant of the periodic sync's clock
MaxClock == 5
\* number of upstream edits in a behaviour of the periodic sync
MaxEdits == 1
\* number of failed pulls and failed products in a behaviour of the periodic sync
MaxFails == 1
\* GetInput queries after which the service object takes no further call
MaxQueries == 2
\* arguments of product_update in an introspection response
MaxArgs == 3
\* records the upstream holds when get_all_products is run
MaxRecords == 5
\* per_page of get_all_products (50 in the code)
PerPage == 2

(* --------------------------- encodings --------------------------------- *)
\* Python None in a text column
None == "None"
\* Python None in a timestamp or integer column
NoneInt == 0
\* datetime(1970,1,1), the default lower bound of the first pull
Epoch == 0
\* a payload hash that was never stored (shiphero_payload_hash IS NULL)
NoHash == <<>>

PIDs == 1..NumProducts
SkuNames == <<"SKU-1", "SKU-2", "SKU-3", "SKU-4">>
\* the natural key of upstream product i
Sku(i) == SkuNames[i]
\* the id the downstream assigns to a product
DsId == "ds-id"

(* ------------------------ scheduler settings --------------------------- *)
\* mutant: the job may run twice at once
two_instances == 1 + 1
\* scheduler.add_job(..., max_instances=1, ...)
max_instances == 1
\* scheduler.add_job(..., coalesce=True, ...)
coalesce == TRUE

VARIABLES
    now,        \* wall clock
    upstream,   \* the ERP's product records, by id
    mirror,     \* committed rows of the products table, by fulfil_product_id
    cursor,     \* committed FulfilCursor row 1
    runs,       \* committed SyncRun rows, by id
    errors,     \* committed SyncError rows, in insertion order
    instances,  \* running instances of job 'delta-sync' in the executor
    run_times,  \* invocations of sync_job the worker still owes for this submission
    pc,         \* position of the worker inside sync_job / run_delta_sync
    run,        \* the session's SyncRun object (pending attribute changes)
    products,   \* the list returned by fulfil.delta
    idx,        \* records of `products` whose loop body has finished
    dirty,      \* flushed, not yet committed mirror row of the record in progress
    pending,    \* SyncError rows added to the session, not yet committed
    last,       \* outcome of the push-or-skip step of the record in progress
    hist,       \* history: what happened, for stating the properties
    \* ShipHeroService (services/shiphero_service.py)
    schema,     \* what the downstream answers to the introspection of each type name
    shape,      \* the mutation shape kept by the service object
    call,       \* the last call made on the service: arguments, request, result
    queried,    \* GetInput queries the service object has sent, per type name
    \* ProductSyncService (services/product_sync_service.py)
    clock,      \* wall clock of the periodic sync
    fulfil,     \* the products served by the Fulfil 3PL API, by id
    mode,       \* configuration key product_sync.mode
    table,      \* committed rows of the products table, in insertion order
    remote,     \* the products the downstream holds, by sku
    spc,        \* position of the periodic_sync thread inside sync_all_products
    slist,      \* the list returned by the Fulfil service for this run
    sidx,       \* products of `slist` already processed
    shist,      \* history of the periodic sync, for stating the properties
    clients,    \* the Fulfil and ShipHero service objects held by the sync service
    \* FulfilService (services/fulfil_service.py)
    pager       \* get_all_products: the upstream's pages, the loop's locals

delta_vars == <<now, upstream, mirror, cursor, runs, errors, instances, run_times,
                pc, run, products, idx, dirty, pending, last, hist>>
client_vars == <<schema, shape, call, queried>>
svc_vars == <<clock, fulfil, mode, table, remote, spc, slist, sidx, shist, clients>>
pager_vars == <<pager>>

vars == <<delta_vars, client_vars, svc_vars, pager_vars>>

\* the service object is not in use
ClientRest == schema = <<>> /\ shape = <<>> /\ call = <<>> /\ queried = <<>>

\* the periodic sync thread is not started
SvcRest ==
    /\ clock = 0
    /\ fulfil = <<>>
    /\ mode = "live"
    /\ table = <<>>
    /\ remote = {}
    /\ spc = "off"
    /\ slist = <<>>
    /\ sidx = 0
    /\ shist = <<>>
    /\ clients = <<>>

\* get_all_products is not running
PagerRest == pager = <<>>

(* ----------------------------- helpers --------------------------------- *)
\* every ordering of a finite set of records, as sequences
Orderings(S) ==
    {f \in [1..Cardinality(S) -> S] : \A i, j \in 1..Cardinality(S) : i # j => f[i] # f[j]}

(* --------------------------- pure functions ---------------------------- *)
\* mutant: only a missing natural key is refused, an empty one passes
HasCodeOrEmpty(p) == p.code # None

\* SyncService._to_db_record: the validation of the natural key,
\* if not p.get("code"): raise ValueError
HasCode(p) == p.code \notin {None, ""}

\* SyncService._to_db_record: the columns taken from the upstream record.
\* upc, hs_code, country_of_origin and the dimensions are copied the same
\* way as variant_name and are left out.
_to_db_record(p) ==
    [fulfil_product_id |-> p.id,
     sku               |-> p.code,
     variant_name      |-> p.variant_name,
     fulfil_write_date |-> p.write_date]

\* Product(**rec): a new row carries no downstream id and no fingerprint
NewRow(rec) ==
    [fulfil_product_id     |-> rec.fulfil_product_id,
     sku                   |-> rec.sku,
     variant_name          |-> rec.variant_name,
     fulfil_write_date     |-> rec.fulfil_write_date,
     shiphero_product_id   |-> None,
     shiphero_payload_hash |-> NoHash,
     shiphero_last_push_at |-> NoneInt]

\* for k, v in rec.items(): setattr(existing, k, v)
Overwrite(existing, rec) ==
    [existing EXCEPT !.fulfil_product_id = rec.fulfil_product_id,
                     !.sku               = rec.sku,
                     !.variant_name      = rec.variant_name,
                     !.fulfil_write_date = rec.fulfil_write_date]

\* the upsert by fulfil_product_id
Upsert(tbl, rec) ==
    IF rec.fulfil_product_id \in DOMAIN tbl
    THEN Overwrite(tbl[rec.fulfil_product_id], rec)
    ELSE NewRow(rec)

\* SyncService._to_shiphero_payload
_to_shiphero_payload(row) ==
    [sku  |-> row.sku,
     name |-> IF row.variant_name # None THEN row.variant_name ELSE row.sku]

\* the keys a downstream request can hold, in the order sort_keys gives them
SortedKeys == <<"id", "name", "sku">>

\* json.dumps(obj, sort_keys=True): key after key, each followed by its value
RECURSIVE Dumps(_, _)
Dumps(obj, k) ==
    IF k > Len(SortedKeys) THEN <<>>
    ELSE (IF SortedKeys[k] \in DOMAIN obj
          THEN <<SortedKeys[k], obj[SortedKeys[k]]>> ELSE <<>>) \o Dumps(obj, k + 1)

\* utils.sha256_json: the digest of the key-sorted serialisation; a digest is
\* taken to be collision free, so it is the serialisation itself
sha256_json(obj) == Dumps(obj, 1)

\* the comparison that decides skip or push
Unchanged(row) == sha256_json(_to_shiphero_payload(row)) = row.shiphero_payload_hash

(* ------------------------ downstream responses ------------------------- *)
\* What requests.post may bring back for a create or update mutation:
\*   http_ok     the status is 2xx (raise_for_status does not raise)
\*   errors      the body has a top-level GraphQL "errors" array
\*   data        the body's "data" entry: absent, null or an object
\*   mut         data.product_create / data.product_update: absent, null, object
\*   mut_errors  the mutation result lists errors (product_create.errors)
\*   product     the mutation result's product node: absent, without id, with id
Responses ==
    {r \in [http_ok : BOOLEAN, errors : BOOLEAN, data : {"absent", "null", "obj"},
            mut : {"absent", "null", "obj"}, mut_errors : BOOLEAN,
            product : {"absent", "noid", "id"}] :
        /\ (~r.http_ok) => (~r.errors /\ r.data = "absent")
        /\ (r.data # "obj") => (r.mut = "absent")
        /\ (r.mut # "obj") => (~r.mut_errors /\ r.product = "absent")}

NoResponse ==
    [http_ok |-> FALSE, errors |-> FALSE, data |-> "absent", mut |-> "absent",
     mut_errors |-> FALSE, product |-> "absent"]

\* ShipHeroClient.graphql followed by the response handling of run_delta_sync:
\* "raise" when an exception leaves the inner try, "ok" otherwise.
\*   r.raise_for_status()                                    -> HTTPError
\*   res.get('data', {}) is None, then .get(...)              -> AttributeError
\*   product_data.get('product_create', {}) is None, .get()   -> AttributeError
\*   errors = create_data.get('errors') or update_...; if errors: raise
HandleResponse(r) ==
    IF ~r.http_ok THEN "raise"
    ELSE IF r.data = "null" THEN "raise"
    ELSE IF r.data = "absent" THEN "ok"
    ELSE IF r.mut = "null" THEN "raise"
    ELSE IF r.mut = "absent" THEN "ok"
    ELSE IF r.mut_errors THEN "raise"
    ELSE "ok"

\* why a response raised: the mutation result listed errors (a semantic error
\* the code looks for), or anything else (HTTP status, malformed body)
Cause(r) == IF r.http_ok /\ r.data = "obj" /\ r.mut = "obj" /\ r.mut_errors
            THEN "semantic" ELSE "transport"

\* node = create_data.get('product') or update_data.get('product');
\* if node: row.shiphero_product_id = node.get('id') or row.shiphero_product_id
NodeId(r, old) ==
    IF r.data = "obj" /\ r.mut = "obj" /\ r.product = "id" THEN DsId ELSE old

\* mutant: the push does not store the fingerprint
PushedNoFingerprint(row, r, t) ==
    [row EXCEPT !.shiphero_product_id   = NodeId(r, row.shiphero_product_id),
                !.shiphero_last_push_at = t]

\* the row after a push that was taken as successful
Pushed(row, r, t) ==
    [row EXCEPT !.shiphero_product_id   = NodeId(r, row.shiphero_product_id),
                !.shiphero_payload_hash = sha256_json(_to_shiphero_payload(row)),
                !.shiphero_last_push_at = t]

(* ------------------------------ records -------------------------------- *)
\* the upstream records product i can be
UpstreamRecords(i, T) ==
    [id : {i}, code : {None, "", Sku(i)}, variant_name : {None, "n"}, write_date : T]

\* SyncRun(started_at=now, status='running', <all counters 0>)
NewRun(id, t) ==
    [id |-> id, status |-> "running", started_at |-> t, finished_at |-> NoneInt,
     total_polled |-> 0, upserts_to_db |-> 0, pushes_to_shiphero |-> 0,
     skipped_no_change |-> 0, errors_count |-> 0]

\* the worker holds no run
NoRun == NewRun(0, NoneInt)

\* SyncError(sync_run_id, sku, fulfil_product_id, stage='sync', ...)
RecordError(r, p) ==
    [sync_run_id |-> r.id, sku |-> p.code, fulfil_product_id |-> p.id, stage |-> "sync"]

\* mutant: the run-level handler files its entry under stage 'sync'
RunErrorAsSync(r) ==
    [sync_run_id |-> r.id, sku |-> None, fulfil_product_id |-> NoneInt, stage |-> "sync"]

\* SyncError(sync_run_id, stage='run', ...)
RunError(r) ==
    [sync_run_id |-> r.id, sku |-> None, fulfil_product_id |-> NoneInt, stage |-> "run"]

\* since_iso = (cursor.last_write_ts or datetime(1970,1,1)).isoformat()
Since(cur) == IF cur.last_write_ts = NoneInt THEN Epoch ELSE cur.last_write_ts

\* fulfil.delta(since_iso): the records modified strictly after the watermark
Delta(since) ==
    {upstream[i] : i \in {j \in DOMAIN upstream : upstream[j].write_date > since}}

\* mutant: the advance stores the write timestamp and leaves last_id alone
_advance_cursor_ts_only(cur, write_ts, pid) ==
    [cur EXCEPT !.last_write_ts = write_ts]

\* SyncService._advance_cursor
_advance_cursor(cur, write_ts, pid) ==
    [cur EXCEPT !.last_write_ts = write_ts, !.last_id = pid]

\* mutant: the run ends 'success' whatever was counted
EndStatusSuccess(r) == "success"

\* run.status = 'success' if run.errors_count == 0 else 'partial'
EndStatus(r) == IF r.errors_count = 0 THEN "success" ELSE "partial"

\* db.commit(): the session's SyncRun object reaches the table
CommitRun == [runs EXCEPT ![run.id] = run]

\* db.commit(): the flushed mirror row reaches the table
CommitMirror ==
    IF dirty = <<>> THEN mirror
    ELSE [i \in (DOMAIN mirror) \cup {dirty[1].fulfil_product_id} |->
            IF i = dirty[1].fulfil_product_id THEN dirty[1] ELSE mirror[i]]

NoLast == [kind |-> "none", resp |-> NoResponse, sent |-> <<>>, lookup |-> "none"]

NoHist(ids) ==
    [calls    |-> [i \in ids |-> 0],   \* create/update requests sent, per upstream id
     pushed   |-> {},                   \* upstream records whose push is committed and current
     failed   |-> {},                   \* this run: records that raised, with the cause
     done     |-> {},                   \* this run: records whose cursor advance is committed
     pulled   |-> FALSE,                \* this run: fulfil.delta returned
     returned |-> {},                   \* the runs run_delta_sync returned: id, whether
                                        \* the pull returned, records pulled, records failed
     start    |-> [mirror |-> <<>>, cursor |-> NoneInt],  \* tables when this run began
     tick_skipped |-> FALSE,            \* a due tick was dropped by max_instances
     mods     |-> 0,                    \* upstream modifications so far
     crashes  |-> 0,                    \* crashes so far
     crash_at |-> "none",               \* position of the last crash
     crash_done |-> {},                 \* records the crashed run had completed
     crash_next |-> 0]                  \* id of the first run after the crash

\* the delta-sync job is not scheduled
DeltaRest ==
    /\ now = 0
    /\ upstream = <<>>
    /\ mirror = <<>>
    /\ cursor = [exists |-> FALSE, last_write_ts |-> NoneInt, last_id |-> NoneInt]
    /\ runs = <<>>
    /\ errors = <<>>
    /\ instances = 0
    /\ run_times = 0
    /\ pc = "idle"
    /\ run = NoRun
    /\ products = <<>>
    /\ idx = 0
    /\ dirty = <<>>
    /\ pending = <<>>
    /\ last = NoLast
    /\ hist = NoHist({})

(* ------------------------------- Init ---------------------------------- *)
\* Before the first run the ERP holds every product, with or without a natural
\* key, last written at instant 1 or 2 (product 1 at instant 1: the ids play
\* no role in the code, so the mirrored case adds nothing; for the same reason
\* the empty natural key is tried on product 1 only).
Init ==
    /\ now = 2
    /\ upstream \in {u \in [PIDs -> UNION {UpstreamRecords(i, 1..2) : i \in PIDs}] :
                        /\ \A i \in PIDs : u[i].id = i /\ u[i].variant_name = "n"
                        /\ \A i \in PIDs : i > 1 => u[i].code # ""
                        /\ u[1].write_date = 1}
    /\ mirror = <<>>
    /\ cursor = [exists |-> FALSE, last_write_ts |-> NoneInt, last_id |-> NoneInt]
    /\ runs = <<>>
    /\ errors = <<>>
    /\ instances = 0
    /\ run_times = 0
    /\ pc = "idle"
    /\ run = NoRun
    /\ products = <<>>
    /\ idx = 0
    /\ dirty = <<>>
    /\ pending = <<>>
    /\ last = NoLast
    /\ hist = NoHist(PIDs)
    /\ ClientRest
    /\ SvcRest
    /\ PagerRest

(* ---------------------------- environment ------------------------------ *)
\* A user of the ERP edits the name of product i at the next instant t: the
\* record's write_date becomes t.  The clock moves only with such an edit.
UpstreamModify(i, t) ==
    /\ hist.mods < MaxMods
    /\ t <= MaxTs
    /\ \E p \in UpstreamRecords(i, {t}) :
        /\ p.code = upstream[i].code
        /\ p.variant_name # upstream[i].variant_name
        /\ upstream' = [upstream EXCEPT ![i] = p]
    /\ now' = t
    /\ hist' = [hist EXCEPT !.mods = @ + 1, !.pushed = {q \in @ : q.id # i}]
    /\ UNCHANGED <<client_vars, svc_vars, pager_vars, mirror, cursor, runs, errors, instances, run_times,
                   pc, run, products, idx, dirty, pending, last>>

(* ----------------------------- scheduler ------------------------------- *)
\* The interval trigger of job 'delta-sync' fires; the scheduler finds n fire
\* times due.  APScheduler drops them when max_instances instances of the job
\* are running, and otherwise submits the job once (coalesce) or n times.
Tick(n) ==
    IF instances >= max_instances
    THEN /\ hist' = [hist EXCEPT !.tick_skipped = TRUE]
         /\ UNCHANGED <<client_vars, svc_vars, pager_vars, now, upstream, mirror, cursor, runs, errors, instances,
                        run_times, pc, run, products, idx, dirty, pending, last>>
    ELSE /\ Len(runs) < MaxRuns
         /\ instances' = instances + 1
         /\ run_times' = IF coalesce THEN 1 ELSE n
         /\ pc' = "start"
         /\ UNCHANGED <<client_vars, svc_vars, pager_vars, now, upstream, mirror, cursor, runs, errors, run, products,
                        idx, dirty, pending, last, hist>>

(* --------------------------- run_delta_sync ---------------------------- *)
\* lines 74-78: the run row is created and committed
CreateRun ==
    /\ pc = "start"
    /\ Len(runs) < MaxRuns
    /\ run' = NewRun(Len(runs) + 1, now)
    /\ runs' = Append(runs, run')
    /\ pc' = "created"
    /\ products' = <<>>
    /\ idx' = 0
    /\ dirty' = <<>>
    /\ pending' = <<>>
    /\ last' = NoLast
    /\ hist' = [hist EXCEPT !.failed = {}, !.done = {}, !.pulled = FALSE,
                            !.start = [mirror |-> mirror, cursor |-> cursor.last_write_ts],
                            !.crash_next = IF hist.crash_at # "none" /\ @ = 0
                                           THEN Len(runs) + 1 ELSE @]
    /\ UNCHANGED <<client_vars, svc_vars, pager_vars, now, upstream, mirror, cursor, errors, instances, run_times>>

\* lines 81-85: the cursor row is read (created on first use) and the pull returns
Pull ==
    /\ pc = "created"
    /\ cursor' = [cursor EXCEPT !.exists = TRUE]
    /\ products' \in Orderings(Delta(Since(cursor)))
    /\ pc' = "loop"
    /\ hist' = [hist EXCEPT !.pulled = TRUE]
    /\ UNCHANGED <<client_vars, svc_vars, pager_vars, now, upstream, mirror, runs, errors, instances, run_times, run,
                   idx, dirty, pending, last>>

\* lines 81-85 and 173-176: the pull raises; the run-level handler runs
PullFails ==
    /\ pc = "created"
    /\ cursor' = [cursor EXCEPT !.exists = TRUE]
    /\ run' = [run EXCEPT !.status = "failed"]
    /\ pending' = Append(pending, RunError(run))
    /\ pc' = "finally"
    /\ UNCHANGED <<client_vars, svc_vars, pager_vars, now, upstream, mirror, runs, errors, instances, run_times,
                   products, idx, dirty, last, hist>>

\* the record the loop body is about to take, and its upserted row
Cur == products[idx + 1]
CurRow == Upsert(mirror, _to_db_record(Cur))

\* line 113: update when the row carries a downstream id, create otherwise
CallKind(row) == IF row.shiphero_product_id # None THEN "update" ELSE "create"

\* lines 115 and 118: the input of the request, payload | {"id": ...} for an
\* update and the payload alone for a create
Sent(row) ==
    IF CallKind(row) = "update"
    THEN [id   |-> row.shiphero_product_id,
          sku  |-> _to_shiphero_payload(row).sku,
          name |-> _to_shiphero_payload(row).name]
    ELSE _to_shiphero_payload(row)

\* mutant: the per-record handler does not count the error
HandledNoCount(r) == r

\* lines 149-168: the per-record handler counts the error, adds the SyncError
\* row and commits the session, whatever it holds
Handled(r) == [r EXCEPT !.errors_count = @ + 1]

\* lines 88-90, 149-168: _to_db_record raises on a record without natural key
RecordInvalid ==
    /\ pc = "loop" /\ idx < Len(products)
    /\ ~HasCode(Cur)
    /\ run' = Handled([run EXCEPT !.total_polled = @ + 1])
    /\ errors' = errors \o pending \o <<RecordError(run, Cur)>>
    /\ runs' = [runs EXCEPT ![run.id] = run']
    /\ pending' = <<>>
    /\ idx' = idx + 1
    /\ last' = NoLast
    /\ hist' = [hist EXCEPT !.failed = @ \cup
                   {[i |-> idx + 1, why |-> "validation", kind |-> "none",
                     new |-> Cur.id \notin DOMAIN mirror]}]
    /\ UNCHANGED <<client_vars, svc_vars, pager_vars, now, upstream, mirror, cursor, instances, run_times, pc,
                   products, dirty>>

\* lines 88-110: upsert, then the fingerprint equals the stored one: skip
RecordSkip ==
    /\ pc = "loop" /\ idx < Len(products)
    /\ HasCode(Cur)
    /\ Unchanged(CurRow)
    /\ run' = [run EXCEPT !.total_polled = @ + 1, !.upserts_to_db = @ + 1,
                          !.skipped_no_change = @ + 1]
    /\ dirty' = <<CurRow>>
    /\ last' = [kind |-> "skip", resp |-> NoResponse, sent |-> <<>>, lookup |-> "none"]
    /\ pc' = "commit"
    /\ UNCHANGED <<client_vars, svc_vars, pager_vars, now, upstream, mirror, cursor, runs, errors, instances,
                   run_times, products, idx, pending, hist>>

\* lines 88-139: upsert, then create or update is sent and taken as successful;
\* lines 112-118 send the create without a lookup by natural key before it
RecordPush ==
    /\ pc = "loop" /\ idx < Len(products)
    /\ HasCode(Cur)
    /\ ~Unchanged(CurRow)
    /\ \E r \in Responses :
        /\ HandleResponse(r) = "ok"
        /\ dirty' = <<Pushed(CurRow, r, now)>>
        /\ last' = [kind |-> CallKind(CurRow), resp |-> r, sent |-> Sent(CurRow),
                     lookup |-> "none"]
    /\ run' = [run EXCEPT !.total_polled = @ + 1, !.upserts_to_db = @ + 1,
                          !.pushes_to_shiphero = @ + 1]
    /\ pc' = "commit"
    /\ hist' = [hist EXCEPT !.calls[Cur.id] = @ + 1]
    /\ UNCHANGED <<client_vars, svc_vars, pager_vars, now, upstream, mirror, cursor, runs, errors, instances,
                   run_times, products, idx, pending>>

\* lines 88-129, 141-168: upsert, then create or update raises; the handler
\* commits the session, and with it the flushed upsert
RecordPushFails ==
    /\ pc = "loop" /\ idx < Len(products)
    /\ HasCode(Cur)
    /\ ~Unchanged(CurRow)
    /\ \E r \in Responses :
        /\ HandleResponse(r) = "raise"
        /\ hist' = [hist EXCEPT !.calls[Cur.id] = @ + 1,
                                !.pushed = {q \in @ : q.id # Cur.id},
                                !.failed = @ \cup
                       {[i |-> idx + 1, why |-> Cause(r), kind |-> CallKind(CurRow),
                         new |-> Cur.id \notin DOMAIN mirror]}]
    /\ run' = Handled([run EXCEPT !.total_polled = @ + 1, !.upserts_to_db = @ + 1])
    /\ mirror' = [i \in (DOMAIN mirror) \cup {Cur.id} |->
                    IF i = Cur.id THEN CurRow ELSE mirror[i]]
    /\ errors' = errors \o pending \o <<RecordError(run, Cur)>>
    /\ runs' = [runs EXCEPT ![run.id] = run']
    /\ pending' = <<>>
    /\ dirty' = <<>>
    /\ idx' = idx + 1
    /\ last' = NoLast
    /\ UNCHANGED <<client_vars, svc_vars, pager_vars, now, upstream, cursor, instances, run_times, pc, products>>

\* line 145: db.commit()
Commit ==
    /\ pc = "commit"
    /\ mirror' = CommitMirror
    /\ runs' = CommitRun
    /\ errors' = errors \o pending
    /\ pending' = <<>>
    /\ dirty' = <<>>
    /\ pc' = "advance"
    /\ hist' = [hist EXCEPT !.pushed =
                   IF last.kind = "skip" THEN @
                   ELSE {q \in @ : q.id # Cur.id} \cup {Cur}]
    /\ last' = NoLast
    /\ UNCHANGED <<client_vars, svc_vars, pager_vars, now, upstream, cursor, instances, run_times, run, products, idx>>

\* line 147: self._advance_cursor(db, row.fulfil_write_date, row.fulfil_product_id)
Advance ==
    /\ pc = "advance"
    /\ cursor' = _advance_cursor(cursor, mirror[Cur.id].fulfil_write_date,
                                 mirror[Cur.id].fulfil_product_id)
    /\ idx' = idx + 1
    /\ pc' = "loop"
    /\ hist' = [hist EXCEPT !.done = @ \cup {Cur}]
    /\ UNCHANGED <<client_vars, svc_vars, pager_vars, now, upstream, mirror, runs, errors, instances, run_times, run,
                   products, dirty, pending, last>>

\* line 170: the loop is over
EndLoop ==
    /\ pc = "loop" /\ idx = Len(products)
    /\ run' = [run EXCEPT !.status = EndStatus(run)]
    /\ pc' = "finally"
    /\ UNCHANGED <<client_vars, svc_vars, pager_vars, now, upstream, mirror, cursor, runs, errors, instances,
                   run_times, products, idx, dirty, pending, last, hist>>

\* lines 177-181: finished_at, commit, close, return; the worker then leaves
\* the job or starts the next owed invocation
Finally ==
    /\ pc = "finally"
    /\ run' = NoRun
    /\ runs' = [runs EXCEPT ![run.id] = [run EXCEPT !.finished_at = now]]
    /\ errors' = errors \o pending
    /\ mirror' = CommitMirror
    /\ pending' = <<>>
    /\ dirty' = <<>>
    /\ products' = <<>>
    /\ idx' = 0
    /\ last' = NoLast
    /\ run_times' = run_times - 1
    /\ IF run_times > 1
       THEN pc' = "start" /\ instances' = instances
       ELSE pc' = "idle" /\ instances' = instances - 1
    /\ hist' = [hist EXCEPT !.returned = @ \cup {[id |-> run.id, pulled |-> hist.pulled,
                                                  n |-> Len(products),
                                                  nfailed |-> Cardinality(hist.failed)]},
                            !.failed = {}, !.done = {},
                            !.pulled = FALSE, !.start = NoHist({}).start,
                            !.tick_skipped = FALSE, !.crash_at = "none",
                            !.crash_done = {}, !.crash_next = 0]
    /\ UNCHANGED <<client_vars, svc_vars, pager_vars, now, upstream, cursor>>

\* the process dies inside a run: the session's pending changes and the
\* scheduler's memory are lost, the committed tables stay
Crash ==
    /\ pc \notin {"idle"}
    /\ hist.crashes < MaxCrashes
    /\ instances' = 0
    /\ run_times' = 0
    /\ pc' = "idle"
    /\ run' = NoRun
    /\ products' = <<>>
    /\ idx' = 0
    /\ dirty' = <<>>
    /\ pending' = <<>>
    /\ last' = NoLast
    /\ hist' = [hist EXCEPT !.crashes = @ + 1, !.crash_at = pc,
                            !.crash_done = hist.done, !.crash_next = 0,
                            !.failed = {}, !.done = {}, !.pulled = FALSE,
                            !.start = NoHist({}).start, !.tick_skipped = FALSE]
    /\ UNCHANGED <<client_vars, svc_vars, pager_vars, now, upstream, mirror, cursor, runs, errors>>

Next ==
    \/ \E i \in DOMAIN upstream : UpstreamModify(i, now + 1)
    \/ \E n \in 1..MaxDue : Tick(n)
    \/ CreateRun
    \/ Pull
    \/ PullFails
    \/ RecordInvalid
    \/ RecordSkip
    \/ RecordPush
    \/ RecordPushFails
    \/ Commit
    \/ Advance
    \/ EndLoop
    \/ Finally
    \/ Crash

Spec == Init /\ [][Next]_vars

(* ---------------- three products, no upstream edits -------------------- *)
\* One product more than Init, all with a natural key, last written at three
\* different instants; the ERP is not edited while the runs take place.
InitWide ==
    /\ now = MaxTs
    /\ upstream \in {u \in [1..(NumProducts + 1) ->
                             UNION {UpstreamRecords(i, 1..MaxTs) : i \in 1..(NumProducts + 1)}] :
                        \A i \in DOMAIN u :
                            /\ u[i].id = i
                            /\ u[i].variant_name = "n"
                            /\ u[i].write_date = IF i <= MaxTs THEN i ELSE MaxTs
                            /\ u[i].code # ""
                            /\ (i > 1 => u[i].code # None)}
    /\ mirror = <<>>
    /\ cursor = [exists |-> FALSE, last_write_ts |-> NoneInt, last_id |-> NoneInt]
    /\ runs = <<>>
    /\ errors = <<>>
    /\ instances = 0
    /\ run_times = 0
    /\ pc = "idle"
    /\ run = NoRun
    /\ products = <<>>
    /\ idx = 0
    /\ dirty = <<>>
    /\ pending = <<>>
    /\ last = NoLast
    /\ hist = NoHist(1..(NumProducts + 1))
    /\ ClientRest
    /\ SvcRest
    /\ PagerRest

NextWide ==
    \/ \E n \in 1..MaxDue : Tick(n)
    \/ CreateRun
    \/ Pull
    \/ PullFails
    \/ RecordInvalid
    \/ RecordSkip
    \/ RecordPush
    \/ RecordPushFails
    \/ Commit
    \/ Advance
    \/ EndLoop
    \/ Finally
    \/ Crash

SpecWide == InitWide /\ [][NextWide]_vars

(* ======================= ShipHeroService (client) ====================== *)
\* JSON values of a request payload, tagged: a primitive (None included), a
\* dict (a function on its keys) or a list (a sequence)
Prim(x) == <<"prim", x>>
Dict(f) == <<"dict", f>>
List(s) == <<"list", s>>
EmptyDict == [k \in {} |-> Prim(None)]

\* input type names: the defaults of ShipHeroService.__init__ and
\* _ensure_required_create_fields, and the downstream's type of `dimensions`
CreateProductInput == "CreateProductInput"
UpdateProductInput == "UpdateProductInput"
CreateWarehouseProductInput == "CreateWarehouseProductInput"
DimensionsInput == "DimensionsInput"
TypeNames == {CreateProductInput, UpdateProductInput, CreateWarehouseProductInput,
              DimensionsInput}

\* a GraphQL type reference: the NON_NULL / LIST wrappers, outermost first,
\* around a named type
TypeRef(wrap, tname) == [wrap |-> wrap, tname |-> tname]
Opt(tname) == TypeRef(<<>>, tname)
Req(tname) == TypeRef(<<"NON_NULL">>, tname)

\* ShipHeroService._deep_type_name: the introspection queries select
\* type { kind name ofType { kind name ofType { kind name } } }, three levels,
\* so a name under three wrappers is not in the response and '' is returned
_deep_type_name(t) == IF Len(t.wrap) <= 2 THEN t.tname ELSE ""

\* ShipHeroService._is_non_null: kind == 'NON_NULL' at the top or one level in
_is_non_null(t) ==
    \/ Len(t.wrap) >= 1 /\ t.wrap[1] = "NON_NULL"
    \/ Len(t.wrap) >= 2 /\ t.wrap[2] = "NON_NULL"

\* the field lists the downstream may declare for each input type
FieldLists(T) ==
    IF T = CreateProductInput THEN
        {[name |-> Req("String"), sku |-> Req("String"), barcode |-> Opt("String"),
          country_of_manufacture |-> Opt("String"), dimensions |-> Opt(DimensionsInput),
          tariff_code |-> Opt("String"), customs_description |-> Opt("String"),
          kit |-> Opt("Boolean"), kit_build |-> Opt("Boolean"), no_air |-> Opt("Boolean"),
          final_sale |-> Opt("Boolean"), customs_value |-> Opt("String"),
          not_owned |-> Opt("Boolean"), dropship |-> Opt("Boolean"),
          weight |-> Opt("String"),
          warehouse_products |->
              TypeRef(<<"NON_NULL", "LIST">>, CreateWarehouseProductInput)],
         [name |-> Req("String"), sku |-> Req("String"),
          dimensions |-> Opt(DimensionsInput),
          warehouse_products |->
              TypeRef(<<"NON_NULL", "LIST", "NON_NULL">>, CreateWarehouseProductInput)]}
    ELSE IF T = UpdateProductInput THEN
        {[sku |-> Req("String"), name |-> Opt("String"), barcode |-> Opt("String"),
          dimensions |-> Opt(DimensionsInput), tariff_code |-> Opt("String"),
          final_sale |-> Opt("Boolean"), weight |-> Opt("String")],
         [name |-> Opt("String"), dimensions |-> Opt(DimensionsInput),
          kit |-> Opt("Boolean"), dropship |-> Opt("Boolean")]}
    ELSE IF T = CreateWarehouseProductInput THEN
        {[warehouse_id |-> Req("String"), on_hand |-> Req("Int"),
          price |-> Opt("String")]}
    ELSE
        {[height |-> Opt("String"), width |-> Opt("String"), length |-> Opt("String")],
         [height |-> Opt("String")]}

\* What _make_request brings back for the GetInput query of a type name:
\*   "error"        requests raises, or the status is not ok (an exception)
\*   "type_null"    a body whose data or data.__type is null (unknown name)
\*   "fields_null"  data.__type.inputFields is null (not an input object)
\*   "ok"           data.__type.inputFields is the list `fields`
Failed(status) == [status |-> status, fields |-> EmptyDict]
Outcomes(T) ==
    {Failed("error"), Failed("type_null"), Failed("fields_null")}
        \cup {[status |-> "ok", fields |-> F] : F \in FieldLists(T)}

\* the answer for a type name: the empty name is unknown to the downstream,
\* a scalar is a type without input fields
Introspect(T) ==
    IF T \in DOMAIN schema THEN schema[T]
    ELSE IF T = "" THEN Failed("type_null")
    ELSE Failed("fields_null")

\* ShipHeroService._get_input_fields: an exception (the request, or .get on
\* None) is caught and [] is returned; inputFields: null is returned as None
_get_input_fields(T) ==
    LET o == Introspect(T) IN
    IF o.status = "ok" THEN [none |-> FALSE, fields |-> o.fields]
    ELSE IF o.status = "fields_null" THEN [none |-> TRUE, fields |-> EmptyDict]
    ELSE [none |-> FALSE, fields |-> EmptyDict]

\* ShipHeroService._filter_input_payload.  Iterating None raises TypeError,
\* caught by the call's own handler, which returns the payload as it came.
RECURSIVE _filter_input_payload(_, _)
_filter_input_payload(input_type_name, payload) ==
    IF payload[1] = "prim" THEN payload
    ELSE IF payload[1] = "list" THEN
        List([i \in DOMAIN payload[2] |->
                 _filter_input_payload(input_type_name, payload[2][i])])
    ELSE
        LET input_fields == _get_input_fields(input_type_name) IN
        IF input_fields.none THEN payload
        ELSE Dict([key \in (DOMAIN payload[2]) \cap (DOMAIN input_fields.fields) |->
                      IF payload[2][key][1] \in {"dict", "list"}
                      THEN _filter_input_payload(
                               _deep_type_name(input_fields.fields[key]),
                               payload[2][key])
                      ELSE payload[2][key]])

\* a dict with entry key |-> value added or replaced
With(d, key, value) ==
    [k \in (DOMAIN d) \cup {key} |-> IF k = key THEN value ELSE d[k]]

\* a dict without the keys of K
Without(d, K) == [k \in (DOMAIN d) \ K |-> d[k]]

\* the rows of the products table the client is handed: natural key (possibly
\* empty), with or without upc, with or without a weight
ClientRows ==
    [code : {"SKU-1", ""}, name : {"n"}, upc : {None}, hs_code : {None},
     country_of_origin : {None}, customs_description : {None},
     weight_pounds : {"0.0", "1.5"}]

\* Product.to_shiphero_dict (the unit conversions are left abstract: the
\* dimensions are numbers, the weight key is present when the weight is positive)
to_shiphero_dict(row) ==
    LET base_data ==
            [name |-> Prim(row.name),
             sku |-> Prim(row.code),
             barcode |-> Prim(IF row.upc \notin {None, ""} THEN row.upc ELSE row.code),
             country_of_manufacture |->
                 Prim(IF row.country_of_origin \notin {None, ""}
                      THEN row.country_of_origin ELSE "US"),
             dimensions |-> Dict([height |-> Prim("0.0"), width |-> Prim("0.0"),
                                  length |-> Prim("0.0")]),
             tariff_code |-> Prim(row.hs_code),
             customs_description |->
                 Prim(IF row.customs_description \notin {None, ""}
                      THEN row.customs_description ELSE row.name),
             kit |-> Prim("False"),
             kit_build |-> Prim("False"),
             no_air |-> Prim("False"),
             final_sale |-> Prim("False"),
             customs_value |-> Prim("0.00"),
             not_owned |-> Prim("False"),
             dropship |-> Prim("False")]
    IN  Dict(IF row.weight_pounds # "0.0"
             THEN With(base_data, "weight", Prim(row.weight_pounds))
             ELSE base_data)

\* the names of the fields of a list that _is_non_null takes as required
RequiredNames(fields) == {f \in DOMAIN fields : _is_non_null(fields[f])}

\* the minimal warehouse_products entry built by lines 264-274
WarehouseProduct(wp_required, wh_id) ==
    LET wp1 == IF "warehouse_id" \in wp_required
               THEN With(EmptyDict, "warehouse_id", Prim(wh_id)) ELSE EmptyDict
        wp2 == IF "on_hand" \in wp_required THEN With(wp1, "on_hand", Prim("0")) ELSE wp1
        wp3 == IF "reorder_level" \in wp_required
               THEN With(wp2, "reorder_level", Prim("0")) ELSE wp2
    IN  IF "price" \in wp_required THEN With(wp3, "price", Prim("0.00")) ELSE wp3

\* ShipHeroService._ensure_required_create_fields, wh_id being what
\* _get_default_warehouse_id returns (None when it finds none).  The loops over
\* a field list that is None raise TypeError, which nothing catches here.
_ensure_required_create_fields(product_data, wh_id) ==
    LET got == _get_input_fields(shape.create_input_type_name)
        wp_type ==
            IF "warehouse_products" \in DOMAIN got.fields
                  /\ _deep_type_name(got.fields["warehouse_products"]) # ""
            THEN _deep_type_name(got.fields["warehouse_products"])
            ELSE CreateWarehouseProductInput
        wp_got == _get_input_fields(wp_type)
    IN  IF got.none THEN [raised |-> TRUE, data |-> product_data]
        ELSE IF "warehouse_products" \in RequiredNames(got.fields)
                  /\ "warehouse_products" \notin DOMAIN product_data[2]
        THEN IF wh_id = None THEN [raised |-> FALSE, data |-> product_data]
             ELSE IF wp_got.none THEN [raised |-> TRUE, data |-> product_data]
             ELSE [raised |-> FALSE,
                   data |-> Dict(With(product_data[2], "warehouse_products",
                                     List(<<Dict(WarehouseProduct(
                                             RequiredNames(wp_got.fields), wh_id))>>)))]
        ELSE [raised |-> FALSE, data |-> product_data]

\* the type names a GetInput query can be sent for
QueryNames == TypeNames \cup {""}

\* the sum of f over the finite set S of its arguments
RECURSIVE Sum(_, _)
Sum(f, S) ==
    IF S = {} THEN 0
    ELSE LET x == CHOOSE y \in S : TRUE IN f[x] + Sum(f, S \ {x})

\* the GetInput queries for type name N that one call of
\* _filter_input_payload(input_type_name, payload) sends: line 97 sends one
\* for every dict it is handed, nothing is kept between two calls
RECURSIVE FilterQueries(_, _, _)
FilterQueries(N, input_type_name, payload) ==
    IF payload[1] = "prim" THEN 0
    ELSE IF payload[1] = "list" THEN
        Sum([i \in DOMAIN payload[2] |->
                FilterQueries(N, input_type_name, payload[2][i])], DOMAIN payload[2])
    ELSE
        LET input_fields == _get_input_fields(input_type_name)
            nested == {key \in (DOMAIN payload[2]) \cap (DOMAIN input_fields.fields) :
                          payload[2][key][1] \in {"dict", "list"}}
        IN  (IF input_type_name = N THEN 1 ELSE 0)
            + (IF input_fields.none THEN 0
               ELSE Sum([key \in nested |->
                            FilterQueries(N, _deep_type_name(input_fields.fields[key]),
                                          payload[2][key])], nested))

\* the GetInput queries for type name N that one call of
\* _ensure_required_create_fields sends: line 246 always, line 262 when the
\* warehouse entry is built
EnsureQueries(N, product_data, wh_id) ==
    LET got == _get_input_fields(shape.create_input_type_name)
        wp_type ==
            IF "warehouse_products" \in DOMAIN got.fields
                  /\ _deep_type_name(got.fields["warehouse_products"]) # ""
            THEN _deep_type_name(got.fields["warehouse_products"])
            ELSE CreateWarehouseProductInput
    IN  (IF shape.create_input_type_name = N THEN 1 ELSE 0)
        + (IF /\ ~got.none
              /\ "warehouse_products" \in RequiredNames(got.fields)
              /\ "warehouse_products" \notin DOMAIN product_data[2]
              /\ wh_id # None
              /\ wp_type = N
           THEN 1 ELSE 0)

\* a request that was not sent, and the variables of one that was
NotSent == [sent |-> FALSE, variables |-> EmptyDict]
Request(variables) == [sent |-> TRUE, variables |-> variables]

\* ShipHeroService.create_product, up to self._make_request(mutation, variables)
create_product(product_data, wh_id) ==
    LET safe_data == _ensure_required_create_fields(product_data, wh_id) IN
    IF safe_data.raised THEN NotSent
    ELSE Request(With(EmptyDict, "data", safe_data.data))

\* mutant: dropship is not among the stripped keys
disallowed_on_update_short ==
    {"kit", "kit_build", "no_air", "customs_value", "not_owned"}

\* update_product lines 356-358: the keys stripped whatever the schema says
disallowed_on_update ==
    {"kit", "kit_build", "no_air", "customs_value", "not_owned", "dropship"}

\* `if ... and identifier`: None and '' are false
Truthy(identifier) == identifier \notin {None, ""}

\* mutant: the natural key is not merged into the payload
MergeSkuNever(safe_data, identifier) == safe_data

\* update_product lines 363-365: sku is added when the filtered payload lacks
\* it and an identifier was given
MergeSku(safe_data, identifier) ==
    IF "sku" \notin DOMAIN safe_data[2] /\ Truthy(identifier)
    THEN Dict(With(safe_data[2], "sku", Prim(identifier)))
    ELSE safe_data

\* ShipHeroService.update_product, up to self._make_request(mutation, variables)
update_product(identifier, product_data) ==
    LET id_arg == shape.update_id_arg_name
        input_type == shape.update_input_type_name
        base_payload == Dict(Without(product_data[2], disallowed_on_update))
        safe_data == _filter_input_payload(input_type, base_payload)
    IN  IF id_arg \in {None, ""}
        THEN Request(With(EmptyDict, "data", MergeSku(safe_data, identifier)))
        ELSE Request(With(With(EmptyDict, "data", safe_data), id_arg, Prim(identifier)))

\* the mutation shapes __init__ and _detect_product_mutation_shapes can leave
\* on the service object (argument and type names at their defaults)
Shapes ==
    [create_input_arg_name : {"data"}, create_input_type_name : {CreateProductInput},
     update_id_arg_name : {None, "id", "legacy_id", "sku", "product_id"},
     update_id_type_name : {"ID"},
     update_input_arg_name : {"data"}, update_input_type_name : {UpdateProductInput}]

Schemas == {s \in [TypeNames -> UNION {Outcomes(T) : T \in TypeNames}] :
                \A T \in TypeNames : s[T] \in Outcomes(T)}

\* a payload with a list of dicts and keys no input type declares
ListPayload ==
    Dict([sku |-> Prim("SKU-1"), zz |-> Prim("z"),
          warehouse_products |->
              List(<<Dict([warehouse_id |-> Prim("wh-1"), zz |-> Prim("z")])>>)])

FilterPayloads == {to_shiphero_dict(r) : r \in ClientRows} \cup {ListPayload}

\* the identifiers update_product is called with: Optional[str]
Identifiers == {None, "", "SKU-1", DsId}

NoCall ==
    [op |-> "none", type |-> "", identifier |-> None, wh_id |-> None,
     payload |-> Prim(None), request |-> NotSent, result |-> Prim(None)]

\* the service object has sent no GetInput query
NoQueries == [N \in QueryNames |-> 0]

\* GetInput queries sent so far, over all type names
TotalQueries == Sum(queried, QueryNames)

InitClient ==
    /\ DeltaRest
    /\ SvcRest
    /\ PagerRest
    /\ schema \in Schemas
    /\ shape \in Shapes
    /\ call = NoCall
    /\ queried = NoQueries

\* self._filter_input_payload(input_type_name, payload)
FilterCall(T, P) ==
    /\ call.op = "none"
    /\ TotalQueries < MaxQueries
    /\ call' = [op |-> "filter", type |-> T, identifier |-> None, wh_id |-> None,
                payload |-> P, request |-> NotSent,
                result |-> _filter_input_payload(T, P)]
    /\ queried' = [N \in QueryNames |-> queried[N] + FilterQueries(N, T, P)]
    /\ UNCHANGED <<schema, shape, delta_vars, svc_vars, pager_vars>>

\* shiphero_service.create_product(existing_product.to_shiphero_dict())
CreateCall(row, wh_id) ==
    /\ call.op = "none"
    /\ TotalQueries < MaxQueries
    /\ call' = [op |-> "create", type |-> shape.create_input_type_name,
                identifier |-> None, wh_id |-> wh_id,
                payload |-> to_shiphero_dict(row),
                request |-> create_product(to_shiphero_dict(row), wh_id),
                result |-> Prim(None)]
    /\ queried' = [N \in QueryNames |->
                      queried[N] + EnsureQueries(N, to_shiphero_dict(row), wh_id)]
    /\ UNCHANGED <<schema, shape, delta_vars, svc_vars, pager_vars>>

\* shiphero_service.update_product(identifier_value, shiphero_data)
UpdateCall(identifier, row) ==
    /\ call.op = "none"
    /\ TotalQueries < MaxQueries
    /\ call' = [op |-> "update", type |-> shape.update_input_type_name,
                identifier |-> identifier, wh_id |-> None,
                payload |-> to_shiphero_dict(row),
                request |-> update_product(identifier, to_shiphero_dict(row)),
                result |-> Prim(None)]
    /\ queried' = [N \in QueryNames |->
                      queried[N] + FilterQueries(N, shape.update_input_type_name,
                          Dict(Without(to_shiphero_dict(row)[2], disallowed_on_update)))]
    /\ UNCHANGED <<schema, shape, delta_vars, svc_vars, pager_vars>>

\* the call returns; the service object is ready for the next one
ReturnCall ==
    /\ call.op # "none"
    /\ call' = NoCall
    /\ UNCHANGED <<schema, shape, queried, delta_vars, svc_vars, pager_vars>>

NextClient ==
    \/ \E T \in {CreateProductInput, UpdateProductInput}, P \in FilterPayloads :
            FilterCall(T, P)
    \/ \E row \in ClientRows, wh_id \in {None, "wh-1"} : CreateCall(row, wh_id)
    \/ \E identifier \in Identifiers, row \in ClientRows : UpdateCall(identifier, row)
    \/ ReturnCall

SpecClient == InitClient /\ [][NextClient]_vars

(* ============== ShipHeroService (mutation-shape detection) ============= *)
\* ShipHeroService.__init__ lines 16-25: the shape before introspection
DefaultShape ==
    [create_input_arg_name |-> "data", create_input_type_name |-> CreateProductInput,
     update_id_arg_name |-> None, update_id_type_name |-> "ID",
     update_input_arg_name |-> "data", update_input_type_name |-> UpdateProductInput]

\* the type names for which `'Input' in tname` holds
InputNames == TypeNames \cup {"ProductInput"}

\* an argument of a mutation field as the introspection lists it; a bad entry
\* is one that is not an object (arg.get raises AttributeError)
Arg(name, type) == [bad |-> FALSE, name |-> name, type |-> type]
BadArg == [bad |-> TRUE, name |-> "", type |-> Opt("")]

\* the arguments product_update may declare
UpdateArgs ==
    {Arg("id", Req("ID")), Arg("legacy_id", Opt("String")), Arg("sku", Req("String")),
     Arg("product_id", Opt("ID")), Arg("customer_account_id", Opt("String")),
     Arg("id", Req("Int")), Arg("data", Req(UpdateProductInput))}

\* the argument lists of at most MaxArgs entries without repetition, a list
\* that ends in a bad entry included
ArgLists(S) ==
    LET lists == UNION {{f \in [1..n -> S] : \A i, j \in 1..n : i # j => f[i] # f[j]} :
                          n \in 0..MaxArgs}
    IN  lists \cup {Append(l, BadArg) : l \in lists}

\* a mutation field of the response: missing from the list, with "args": null,
\* or with an argument list
NoField == [present |-> FALSE, args_null |-> FALSE, args |-> <<>>]
NullArgs == [present |-> TRUE, args_null |-> TRUE, args |-> <<>>]
Field(args) == [present |-> TRUE, args_null |-> FALSE, args |-> args]

\* What _make_request brings back for the Introspect query:
\*   "error"      an exception (transport, status)
\*   "data_null"  a body whose data, __schema or mutationType is null
\*   "ok"         the fields list, with or without the two product mutations
ShapeResponses ==
    [status : {"error", "data_null"}, create : {NoField}, update : {NoField}]
      \cup [status : {"ok"},
            create : {NoField, NullArgs, Field(<<>>),
                      Field(<<Arg("data", Req(CreateProductInput))>>),
                      Field(<<Arg("input", Req("ProductInput"))>>),
                      Field(<<Arg("input", Req("ProductInput")), BadArg>>)},
            update : {NoField, NullArgs} \cup {Field(l) : l \in ArgLists(UpdateArgs)}]

\* the outcome of a part of the detection: the shape so far, and whether an
\* exception left the try block
Went(sh) == [raised |-> FALSE, shape |-> sh]
Raised(sh) == [raised |-> TRUE, shape |-> sh]

\* lines 149-155: the first argument whose type name holds 'Input' gives the
\* create argument and type names
RECURSIVE CreateLoop(_, _, _)
CreateLoop(sh, args, k) ==
    IF k > Len(args) THEN Went(sh)
    ELSE IF args[k].bad THEN Raised(sh)
    ELSE IF _deep_type_name(args[k].type) \in InputNames
    THEN Went([sh EXCEPT !.create_input_arg_name = args[k].name,
                         !.create_input_type_name = _deep_type_name(args[k].type)])
    ELSE CreateLoop(sh, args, k + 1)

\* lines 160-166: every argument typed ID or String becomes a candidate, every
\* argument whose type name holds 'Input' overwrites the update argument and
\* type names
RECURSIVE UpdateLoop(_, _, _, _)
UpdateLoop(sh, id_candidates, args, k) ==
    IF k > Len(args) THEN [raised |-> FALSE, shape |-> sh, id_candidates |-> id_candidates]
    ELSE IF args[k].bad
    THEN [raised |-> TRUE, shape |-> sh, id_candidates |-> id_candidates]
    ELSE LET tname == _deep_type_name(args[k].type)
             cands == IF tname \in {"ID", "String"}
                      THEN With(id_candidates, args[k].name, tname) ELSE id_candidates
             sh2   == IF tname \in InputNames
                      THEN [sh EXCEPT !.update_input_arg_name = args[k].name,
                                      !.update_input_type_name = tname]
                      ELSE sh
         IN  UpdateLoop(sh2, cands, args, k + 1)

\* mutant: the natural key is preferred to the ids
PriorityNaturalKeyFirst == <<"sku", "id", "legacy_id", "product_id">>

\* line 167: for pref in ['id', 'legacy_id', 'sku', 'product_id']
Priority == <<"id", "legacy_id", "sku", "product_id">>

\* lines 167-171: the first preferred name among the candidates
RECURSIVE PrefLoop(_, _, _)
PrefLoop(sh, id_candidates, k) ==
    IF k > Len(Priority) THEN sh
    ELSE IF Priority[k] \in DOMAIN id_candidates
    THEN [sh EXCEPT !.update_id_arg_name = Priority[k],
                    !.update_id_type_name = id_candidates[Priority[k]]]
    ELSE PrefLoop(sh, id_candidates, k + 1)

\* ShipHeroService._detect_product_mutation_shapes: the shape it leaves on the
\* service object; the except clause keeps whatever was assigned before the
\* exception
_detect_product_mutation_shapes(sh, resp) ==
    IF resp.status # "ok" THEN sh
    ELSE
      LET c == IF ~resp.create.present THEN Went(sh)
               ELSE IF resp.create.args_null THEN Raised(sh)
               ELSE CreateLoop(sh, resp.create.args, 1)
      IN  IF c.raised THEN c.shape
          ELSE IF ~resp.update.present THEN c.shape
          ELSE IF resp.update.args_null THEN c.shape
          ELSE LET u == UpdateLoop(c.shape, EmptyDict, resp.update.args, 1)
               IN  IF u.raised THEN u.shape
                   ELSE PrefLoop(u.shape, u.id_candidates, 1)

\* __init__ up to line 26: the defaults are set, the downstream will answer
\* the Introspect query with resp
InitShape ==
    /\ DeltaRest
    /\ SvcRest
    /\ PagerRest
    /\ schema = <<>>
    /\ queried = <<>>
    /\ shape = DefaultShape
    /\ call \in [op : {"init"}, resp : ShapeResponses]

\* __init__ line 27: self._detect_product_mutation_shapes()
DetectShapes ==
    /\ call.op = "init"
    /\ shape' = _detect_product_mutation_shapes(shape, call.resp)
    /\ call' = [call EXCEPT !.op = "detected"]
    /\ UNCHANGED <<schema, queried, delta_vars, svc_vars, pager_vars>>

NextShape == DetectShapes

SpecShape == InitShape /\ [][NextShape]_vars

(* =================== ProductSyncService (periodic sync) ================ *)
\* the Fulfil 3PL API's record of product i: name n, last updated at t
FulfilProduct(i, n, t) == [id |-> i, code |-> Sku(i), name |-> n, updated_at |-> t]

\* FulfilService.parse_product_data: the fields the mirror keeps
parse_product_data(p) == [fulfil_id |-> p.id, code |-> p.code, name |-> p.name]

\* Column default of Product.mode (models.py line 39): neither
\* parse_product_data nor _sync_single_product gives the row a mode
DefaultMode == "live"

\* Product(**parsed_data), with last_synced_at = current_time
NewProduct(parsed, t) ==
    [mode |-> DefaultMode, fulfil_id |-> parsed.fulfil_id, code |-> parsed.code,
     name |-> parsed.name, shiphero_id |-> None, last_synced_at |-> t]

\* mutant: an existing row keeps its name (a merge, not an overwrite)
UpdatedProductKeepsName(existing, parsed, t) ==
    [existing EXCEPT !.code = parsed.code, !.last_synced_at = t]

\* setattr(existing_product, key, value) for the parsed fields, with
\* last_synced_at = current_time
UpdatedProduct(existing, parsed, t) ==
    [existing EXCEPT !.code = parsed.code, !.name = parsed.name,
                     !.last_synced_at = t]

\* query(Product).filter(Product.fulfil_id == fulfil_id).first(): the position
\* of the first row with that upstream id, in any mode, 0 when there is none
FirstByFulfilId(tbl, fulfil_id) ==
    IF \E k \in DOMAIN tbl : tbl[k].fulfil_id = fulfil_id
    THEN CHOOSE k \in DOMAIN tbl :
            /\ tbl[k].fulfil_id = fulfil_id
            /\ \A j \in DOMAIN tbl : tbl[j].fulfil_id = fulfil_id => k <= j
    ELSE 0

\* ProductSyncService._should_perform_initial_sync
_should_perform_initial_sync == Len(table) = 0

\* ProductSyncService._get_last_sync_time: the latest last_synced_at of the table
_get_last_sync_time ==
    CHOOSE t \in {table[k].last_synced_at : k \in DOMAIN table} :
        \A k \in DOMAIN table : t >= table[k].last_synced_at

\* FulfilService.get_all_products(updated_at_min, updated_at_max)
get_all_products(updated_at_min, updated_at_max) ==
    {fulfil[i] : i \in {j \in DOMAIN fulfil :
                          /\ updated_at_min <= fulfil[j].updated_at
                          /\ fulfil[j].updated_at <= updated_at_max}}

\* sync_all_products lines 111-126: everything on an empty table, else what
\* was updated between the last sync time and now
PulledProducts ==
    IF _should_perform_initial_sync THEN {fulfil[i] : i \in DOMAIN fulfil}
    ELSE get_all_products(_get_last_sync_time, clock)

\* datetime.now(): the clock moves with every reading, up to the model's horizon
Later(t) == IF t < MaxClock THEN t + 1 ELSE t

NoSvcHist == [edits |-> 0, fails |-> 0]

\* ProductSyncService._initialize_services: both clients are built from the
\* configuration of the active mode (config_service.get_fulfil_config and
\* get_shiphero_config read product_sync.mode); the ShipHero client
\* introspects the mutation shapes of that mode's endpoint as it is built
_initialize_services ==
    [fulfil_service |-> mode, shiphero_service |-> mode, shape |-> mode]

InitSvc ==
    /\ DeltaRest
    /\ ClientRest
    /\ PagerRest
    /\ clock = 1
    /\ fulfil = [i \in PIDs |-> FulfilProduct(i, "n", 1)]
    /\ mode = "live"
    /\ table = <<>>
    /\ remote \in SUBSET {Sku(1)}
    /\ spc = "idle"
    /\ slist = <<>>
    /\ sidx = 0
    /\ shist = NoSvcHist
    /\ clients = _initialize_services

\* a user of the ERP renames product i
FulfilEdit(i) ==
    /\ shist.edits < MaxEdits
    /\ clock < MaxClock
    /\ clock' = clock + 1
    /\ fulfil' = [fulfil EXCEPT ![i] =
                    FulfilProduct(i, IF @.name = "n" THEN "m" ELSE "n", clock + 1)]
    /\ shist' = [shist EXCEPT !.edits = @ + 1]
    /\ UNCHANGED <<mode, table, remote, spc, slist, sidx, clients,
                   delta_vars, client_vars, pager_vars>>

\* PUT /config/product-sync/mode (routes.py lines 474-502): the key is stored;
\* product_sync_service.reload_configuration() does not exist, the request
\* ends with status 500 and the stored mode stays
SetMode(m) ==
    /\ m # mode
    /\ mode' = m
    /\ UNCHANGED <<clock, fulfil, table, remote, spc, slist, sidx, shist,
                   clients,
                   delta_vars, client_vars, pager_vars>>

\* periodic_sync calls sync_all_products: lines 97-129, the pull returns
SyncStart ==
    /\ spc = "idle"
    /\ slist' \in Orderings(PulledProducts)
    /\ sidx' = 0
    /\ spc' = "loop"
    /\ UNCHANGED <<clock, fulfil, mode, table, remote, shist, clients,
                   delta_vars, client_vars, pager_vars>>

\* the pull raises: sync_all_products ends, periodic_sync prints the error
SyncPullFails ==
    /\ spc = "idle"
    /\ shist.fails < MaxFails
    /\ shist' = [shist EXCEPT !.fails = @ + 1]
    /\ UNCHANGED <<clock, fulfil, mode, table, remote, spc, slist, sidx,
                   clients,
                   delta_vars, client_vars, pager_vars>>

\* the product the loop is about to take, its parsed fields, its row's position
SCur == slist[sidx + 1]
SPos == FirstByFulfilId(table, SCur.id)

\* the committed table after lines 219-275 at time t
Upserted(t) ==
    IF SPos = 0 THEN Append(table, NewProduct(parse_product_data(SCur), t))
    ELSE [table EXCEPT ![SPos] = UpdatedProduct(@, parse_product_data(SCur), t)]

\* the position of the row of SCur in the upserted table
SRow(tbl) == FirstByFulfilId(tbl, SCur.id)

\* _sync_single_product: upsert and commit (lines 219-275), then the
\* downstream step (lines 278-348), whose exceptions are logged and dropped.
\* answer is what the downstream calls of the step come to: "ok", or "raise"
\* when get_product_by_sku, update_product or create_product raises.
SyncOne(answer) ==
    /\ spc = "loop" /\ sidx < Len(slist)
    /\ clock' = Later(clock)
    /\ LET tbl == Upserted(clock')
           k   == SRow(tbl)
       IN  IF tbl[k].shiphero_id # None
           THEN \* update_product(identifier_value, shiphero_data)
                table' = tbl /\ remote' = remote
           ELSE IF answer = "raise"
           THEN table' = tbl /\ remote' = remote
           ELSE IF tbl[k].code \in remote
           THEN \* get_product_by_sku found it: update_product, keep its id
                table' = [tbl EXCEPT ![k].shiphero_id = DsId] /\ remote' = remote
           ELSE \* get_product_by_sku returned None: create_product
                /\ table' = [tbl EXCEPT ![k].shiphero_id = DsId]
                /\ remote' = remote \cup {tbl[k].code}
    /\ sidx' = sidx + 1
    /\ UNCHANGED <<fulfil, mode, spc, slist, shist, clients,
                   delta_vars, client_vars, pager_vars>>

\* _sync_single_product raises before its commit (the flush fails): the row
\* is not written, sync_all_products counts the product as failed (lines 144-148)
SyncOneFails ==
    /\ spc = "loop" /\ sidx < Len(slist)
    /\ shist.fails < MaxFails
    /\ clock' = Later(clock)
    /\ sidx' = sidx + 1
    /\ shist' = [shist EXCEPT !.fails = @ + 1]
    /\ UNCHANGED <<fulfil, mode, table, remote, spc, slist, clients,
                   delta_vars, client_vars, pager_vars>>

\* sync_all_products returns its summary; periodic_sync sleeps
SyncEnd ==
    /\ spc = "loop" /\ sidx = Len(slist)
    /\ spc' = "idle"
    /\ slist' = <<>>
    /\ sidx' = 0
    /\ UNCHANGED <<clock, fulfil, mode, table, remote, shist, clients,
                   delta_vars, client_vars, pager_vars>>

NextSvc ==
    \/ \E i \in DOMAIN fulfil : FulfilEdit(i)
    \/ \E m \in {"live", "test"} : SetMode(m)
    \/ SyncStart
    \/ SyncPullFails
    \/ \E answer \in {"ok", "raise"} : SyncOne(answer)
    \/ SyncOneFails
    \/ SyncEnd

SpecSvc == InitSvc /\ [][NextSvc]_vars

\* periodic_sync is a `while True` loop and sync_all_products a `for` loop:
\* a run that can start does start, a product that can be processed is
\* processed, a run that can end ends
SpecSvcLive ==
    /\ SpecSvc
    /\ WF_vars(SyncStart)
    /\ WF_vars(\E answer \in {"ok", "raise"} : SyncOne(answer))
    /\ WF_vars(SyncEnd)

(* ===================== FulfilService (pagination) ====================== *)
\* the keys _extract_products looks for, in its order
ListKeys == <<"data", "products", "results", "items">>

\* the explicit signals a response body can carry
Signals == {"next", "has_more", "pages"}

\* The upstreams get_all_products is run against: n records (numbered 1..n),
\* served PerPage at a time as a raw list or as an object holding the list
\* under one of the known keys, with any set of truthful paging signals
Servers ==
    [n : 0..MaxRecords, kind : {"list"}, key : {"data"}, signals : {{}}]
        \cup [n : 0..MaxRecords, kind : {"dict"},
              key : {ListKeys[i] : i \in DOMAIN ListKeys}, signals : SUBSET Signals]

\* the number of pages that hold a record
LastPage(n) == (n + PerPage - 1) \div PerPage

\* the records of page p
PageOf(n, p) ==
    [i \in 1..(IF n >= p * PerPage THEN PerPage
               ELSE IF n > (p - 1) * PerPage THEN n - (p - 1) * PerPage ELSE 0)
        |-> (p - 1) * PerPage + i]

\* FulfilService.get_products(page, per_page): response.json() of a server
\* that signals truthfully
get_products(server, p) ==
    [kind        |-> server.kind,
     key         |-> server.key,
     products    |-> PageOf(server.n, p),
     next        |-> "next" \in server.signals /\ p < LastPage(server.n),
     has_more    |-> IF "has_more" \notin server.signals THEN "absent"
                     ELSE IF p < LastPage(server.n) THEN "true" ELSE "false",
     pages       |-> "pages" \in server.signals,
     page        |-> p,
     total_pages |-> LastPage(server.n)]

\* any response body: the signals need not agree with one another
AnyResponses ==
    [kind : {"list", "dict"}, key : {"data"}, products : {<<1>>, <<1, 2>>},
     next : BOOLEAN, has_more : {"absent", "true", "false"}, pages : BOOLEAN,
     page : {1}, total_pages : {1, 2}]

NoData ==
    [kind |-> "list", key |-> "data", products |-> <<>>, next |-> FALSE,
     has_more |-> "absent", pages |-> FALSE, page |-> 0, total_pages |-> 0]

\* FulfilService._extract_products
_extract_products(data) ==
    IF data.kind = "list" THEN data.products
    ELSE IF \E i \in DOMAIN ListKeys : ListKeys[i] = data.key THEN data.products
    ELSE <<>>

\* FulfilService._has_more_pages
_has_more_pages(data, products_count, per_page) ==
    IF data.kind = "dict" /\ data.next THEN TRUE
    ELSE IF data.kind = "dict" /\ data.has_more = "true" THEN TRUE
    ELSE IF data.kind = "dict" /\ data.pages THEN data.page < data.total_pages
    ELSE products_count >= per_page

InitPager ==
    /\ DeltaRest
    /\ ClientRest
    /\ SvcRest
    /\ pager \in [pc : {"idle"}, server : Servers, page : {0}, all_products : {<<>>},
                  requested : {<<>>}, data : {NoData}, count : {0}, more : {FALSE}]

\* self._has_more_pages(data, len(products), per_page) on any response
HasMoreCall(data) ==
    /\ pager.pc = "idle"
    /\ pager' = [pager EXCEPT !.pc = "decided", !.data = data,
                              !.count = Len(_extract_products(data)),
                              !.more = _has_more_pages(data, Len(_extract_products(data)),
                                                       PerPage)]
    /\ UNCHANGED <<delta_vars, client_vars, svc_vars>>

\* get_all_products lines 92-94
GetAllStart ==
    /\ pager.pc = "idle"
    /\ pager' = [pager EXCEPT !.pc = "loop", !.page = 1]
    /\ UNCHANGED <<delta_vars, client_vars, svc_vars>>

\* get_all_products lines 97-109: one turn of the loop
GetPage ==
    /\ pager.pc = "loop"
    /\ LET data == get_products(pager.server, pager.page)
           page_products == _extract_products(data)
           more == _has_more_pages(data, Len(page_products), PerPage)
       IN  pager' =
             IF page_products = <<>>
             THEN [pager EXCEPT !.pc = "done", !.data = data, !.count = 0,
                                !.requested = Append(@, pager.page)]
             ELSE [pager EXCEPT !.pc = IF more THEN "loop" ELSE "done",
                                !.data = data, !.count = Len(page_products), !.more = more,
                                !.all_products = @ \o page_products,
                                !.requested = Append(@, pager.page),
                                !.page = IF more THEN @ + 1 ELSE @]
    /\ UNCHANGED <<delta_vars, client_vars, svc_vars>>

\* get_all_products line 111
GetAllReturn ==
    /\ pager.pc = "done"
    /\ pager' = [pager EXCEPT !.pc = "returned"]
    /\ UNCHANGED <<delta_vars, client_vars, svc_vars>>

NextPager ==
    \/ \E data \in AnyResponses : HasMoreCall(data)
    \/ GetAllStart
    \/ GetPage
    \/ GetAllReturn

SpecPager == InitPager /\ [][NextPager]_vars

(* ============================== properties ============================= *)
\* the SyncError rows of run id with the given stage
ErrorsOf(id, stage) ==
    {k \in DOMAIN errors : errors[k].sync_run_id = id /\ errors[k].stage = stage}

\* the worker has left the loop of a run whose pull returned
AtEndOfPull == pc = "finally" /\ hist.pulled

\* the step taken is the loop body of the record Cur (it ends in the commit
\* position or, handled as an error, at the next record)
RecordStep == pc = "loop" /\ idx < Len(products) /\ (pc' = "commit" \/ idx' = idx + 1)

\* C1: when a record of the pull raised, the cursor persisted at the end of the
\* run is not past that record (its write_date is still after the watermark, so
\* the next pull returns it again), also when later records succeeded.
C1_CursorNotPastFailed ==
    AtEndOfPull =>
        \A f \in hist.failed : Since(cursor) < products[f.i].write_date

\* C2: every step leaves the cursor's last_write_ts at or above its old value.
C2_CursorMonotone ==
    [][cursor'.last_write_ts >= cursor.last_write_ts]_vars

\* C3: when the loop body takes a record whose push was committed by an earlier
\* run and that the ERP has not edited since, it sends no create or update,
\* adds one to the skipped counter and leaves the pushed counter alone.
C3_IdempotentSkip ==
    [][(RecordStep /\ Cur \in hist.pushed) =>
          /\ pc' = "commit"
          /\ last'.kind = "skip"
          /\ hist'.calls = hist.calls
          /\ run'.skipped_no_change = run.skipped_no_change + 1
          /\ run'.pushes_to_shiphero = run.pushes_to_shiphero
          /\ run'.errors_count = run.errors_count]_vars

\* C3 witness: a record pushed by an earlier run was pulled again and skipped
C3_Witness ==
    /\ pc = "commit"
    /\ last.kind = "skip"
    /\ Cur \in hist.pushed
    /\ hist.calls[Cur.id] = 1

\* C4: after a crash that hit a record already upserted but whose cursor advance
\* was not committed, the next run pulls none of the records the crashed run
\* had completed before it.
C4_ReplayAtMostK ==
    (/\ hist.crash_at \in {"commit", "advance"}
     /\ run.id # 0
     /\ run.id = hist.crash_next
     /\ hist.pulled) =>
        \A i \in 1..Len(products) : products[i] \notin hist.crash_done

\* C5: at most one instance of the job runs, and the worker owes at most the
\* invocation it is executing: a tick during a run starts nothing and queues
\* nothing.
C5_OneRunAtATime ==
    /\ instances <= 1
    /\ run_times <= 1
    /\ (pc = "idle") = (instances = 0)
    /\ (pc = "idle") = (run_times = 0)

\* C5 witness: a tick fired while a run was in progress and was dropped
C5_Witness ==
    /\ hist.tick_skipped
    /\ instances = 1
    /\ pc = "loop"

\* C6: a run starts as 'running' with all counters zero, and every run that
\* run_delta_sync returned is committed with its end time and one terminal
\* status: 'failed' if the pull raised, else 'success' with no errors counted,
\* else 'partial'.
C6_RunStatus ==
    /\ pc = "created" => (run = NewRun(run.id, run.started_at) /\ runs[run.id] = run)
    /\ \A r \in hist.returned :
        /\ runs[r.id].finished_at # NoneInt
        /\ runs[r.id].status =
              IF ~r.pulled THEN "failed"
              ELSE IF runs[r.id].errors_count = 0 THEN "success" ELSE "partial"

\* C6 witness: runs have returned with each of the terminal statuses
C6_Witness ==
    /\ \E r \in hist.returned : runs[r.id].status = "partial"
    /\ \E r \in hist.returned : runs[r.id].status \in {"success", "failed"}

\* C7: a run that ends 'failed' has exactly one SyncError of stage 'run' and none
\* of stage 'sync', all its counters are zero, and when it ends the mirror and
\* the cursor's watermark are what they were when the run began.
C7_FailedRun ==
    /\ \A id \in DOMAIN runs :
        runs[id].status = "failed" =>
            /\ Cardinality(ErrorsOf(id, "run")) = 1
            /\ ErrorsOf(id, "sync") = {}
            /\ runs[id].total_polled = 0
            /\ runs[id].upserts_to_db = 0
            /\ runs[id].pushes_to_shiphero = 0
            /\ runs[id].skipped_no_change = 0
    /\ (pc = "finally" /\ run.status = "failed") =>
            /\ mirror = hist.start.mirror
            /\ cursor.last_write_ts = hist.start.cursor
            /\ pending = <<RunError(run)>>

\* C7 witness: a failed run is committed after an earlier run had filled the
\* mirror and moved the cursor
C7_Witness ==
    /\ \E id \in DOMAIN runs : runs[id].status = "failed"
    /\ mirror # <<>>
    /\ cursor.last_write_ts # NoneInt

\* C8: a returned run whose pull brought N records has polled N, is 'success' or
\* 'partial', and has one SyncError of stage 'sync' per record that raised, as
\* many as its error counter.
C8_RecordErrorsDoNotAbort ==
    \A r \in hist.returned :
        r.pulled =>
            /\ runs[r.id].total_polled = r.n
            /\ runs[r.id].status \in {"success", "partial"}
            /\ runs[r.id].errors_count = r.nfailed
            /\ Cardinality(ErrorsOf(r.id, "sync")) = r.nfailed
            /\ ErrorsOf(r.id, "run") = {}

\* C8 witness: a run returned in which one record raised and another was pushed
C8_Witness ==
    \E r \in hist.returned :
        /\ r.pulled
        /\ r.n = NumProducts
        /\ r.nfailed >= 1
        /\ runs[r.id].pushes_to_shiphero >= 1

\* C9: a create or update whose 2xx response carries a top-level GraphQL errors
\* array is never taken as a successful push (which is what the commit position
\* after a create or update means: counter incremented, fingerprint stored).
C9_GraphQLErrorsNeverSuccess ==
    (pc = "commit" /\ last.kind \in {"create", "update"}) => ~last.resp.errors

\* what C10 says of one failed record, the cursor aside
C10_Rest(f) ==
    /\ \E k \in ErrorsOf(run.id, "sync") :
            errors[k].fulfil_product_id = products[f.i].id
    /\ products[f.i].id \in DOMAIN mirror
    /\ mirror[products[f.i].id].shiphero_product_id = None
    /\ mirror[products[f.i].id].shiphero_payload_hash = NoHash
    /\ run.status = "partial"

\* C10: when the create for a newly observed record returned a semantic error,
\* then at the end of the run a SyncError of stage 'sync' exists for it, its
\* mirror row exists without downstream id and fingerprint, the cursor is not
\* past the record, and the run is 'partial'.
C10_CreateSemanticError ==
    AtEndOfPull =>
        \A f \in hist.failed :
            (f.why = "semantic" /\ f.kind = "create" /\ f.new) =>
                /\ C10_Rest(f)
                /\ Since(cursor) < products[f.i].write_date

\* the downstream id the mirror holds for upstream id i before the commit
KnownId(i) == IF i \in DOMAIN mirror THEN mirror[i].shiphero_product_id ELSE None

\* the request's input without the identifier key: the payload
PayloadOf(sent) == [k \in (DOMAIN sent) \ {"id"} |-> sent[k]]

\* C11: when a record went through upsert and push-or-skip without exception,
\* the commit at line 145 puts its mirror row and the run's counters in the
\* tables, and the advance at line 147 sets the cursor to exactly the record's
\* (write_date, id) before the loop takes the next record; after a push the
\* committed row's fingerprint is the hash of the payload of the request, its
\* downstream id is the one the response returned, else the one known before,
\* and the committed push counter is one more than it was.
C11_SuccessCommitsAndAdvances ==
    [][/\ (pc = "commit" /\ pc' = "advance") =>
            /\ dirty' = <<>>
            /\ Cur.id \in DOMAIN mirror'
            /\ mirror'[Cur.id] = dirty[1]
            /\ mirror'[Cur.id].fulfil_product_id = Cur.id
            /\ mirror'[Cur.id].sku = Cur.code
            /\ mirror'[Cur.id].variant_name = Cur.variant_name
            /\ mirror'[Cur.id].fulfil_write_date = Cur.write_date
            /\ runs'[run.id] = run
            /\ (last.kind \in {"create", "update"}) =>
                  /\ mirror'[Cur.id].shiphero_payload_hash =
                          sha256_json(PayloadOf(last.sent))
                  /\ mirror'[Cur.id].shiphero_product_id =
                          IF last.resp.product = "id" THEN DsId ELSE KnownId(Cur.id)
                  /\ runs'[run.id].pushes_to_shiphero =
                          runs[run.id].pushes_to_shiphero + 1
            /\ (last.kind = "skip") =>
                  /\ runs'[run.id].pushes_to_shiphero = runs[run.id].pushes_to_shiphero
                  /\ mirror'[Cur.id].shiphero_product_id = KnownId(Cur.id)
       /\ (pc = "advance" /\ pc' = "loop") =>
            /\ cursor'.last_write_ts = Cur.write_date
            /\ cursor'.last_id = Cur.id
            /\ mirror' = mirror
            /\ idx' = idx + 1]_vars

\* C11 witness: the second record of a pull was pushed downstream and
\* committed, and the cursor stands on it as the loop is about to go on
C11_Witness ==
    /\ pc = "loop"
    /\ idx = 2
    /\ products[idx] \in hist.done
    /\ products[idx] \in hist.pushed
    /\ hist.calls[products[idx].id] >= 1
    /\ cursor.last_id = products[idx].id
    /\ cursor.last_write_ts = products[idx].write_date
    /\ mirror[products[idx].id].shiphero_product_id = DsId

\* C12: the loop body of run_delta_sync sends update when the row carries a
\* downstream id, and sends create only after a lookup by natural key in the
\* same step came back absent.
C12_CreateOnlyAfterAbsentLookup ==
    (pc = "commit" /\ last.kind \in {"create", "update"}) =>
        /\ (KnownId(Cur.id) # None) => last.kind = "update"
        /\ (last.kind = "create") => last.lookup = "absent"

\* C17: the loop body of run_delta_sync, on a record whose natural key is
\* missing or empty, sends no downstream request, leaves the mirror and the
\* session's rows alone, does not count an upsert, counts one error and files
\* one SyncError of stage 'sync', and goes on to the next record.
C17_ValidationBeforeAnyCall ==
    [][(RecordStep /\ Cur.code \in {None, ""}) =>
          /\ idx' = idx + 1
          /\ pc' = "loop"
          /\ last'.kind = "none"
          /\ hist'.calls = hist.calls
          /\ mirror' = mirror
          /\ dirty' = dirty
          /\ run'.upserts_to_db = run.upserts_to_db
          /\ run'.pushes_to_shiphero = run.pushes_to_shiphero
          /\ run'.errors_count = run.errors_count + 1
          /\ runs'[run.id].errors_count = run.errors_count + 1
          /\ Len(errors') = Len(errors) + 1
          /\ errors'[Len(errors')].stage = "sync"
          /\ errors'[Len(errors')].fulfil_product_id = Cur.id]_vars

\* C17 witness: a record with an empty natural key went through the loop body
\* after another record was pushed
C17_Witness ==
    /\ pc = "loop"
    /\ idx = 2
    /\ products[idx].code = ""
    /\ products[idx].id \notin DOMAIN mirror
    /\ run.errors_count = 1
    /\ run.pushes_to_shiphero = 1
    /\ hist.calls[products[idx].id] = 0

\* what the filter is to return: the kept keys' nested values filtered against
\* the type name the field declares, whatever wraps it
RECURSIVE FilterByDeclaredType(_, _)
FilterByDeclaredType(T, v) ==
    IF v[1] = "prim" THEN v
    ELSE IF v[1] = "list" THEN
        List([i \in DOMAIN v[2] |-> FilterByDeclaredType(T, v[2][i])])
    ELSE IF Introspect(T).status # "ok" THEN v
    ELSE Dict([k \in (DOMAIN v[2]) \cap (DOMAIN Introspect(T).fields) |->
                  FilterByDeclaredType(Introspect(T).fields[k].tname, v[2][k])])

\* the request's payload variable, as a dict
SentData == call.request.variables["data"][2]

\* C13: when the introspection of every input type succeeds, the filter of a
\* dict payload P against a type with field list F returns a dict whose keys
\* are keys(P) \cap F, with primitive values unchanged and every dict or list
\* value filtered recursively against the type name its field declares.
C13_FilterKeepsDeclaredFields ==
    (/\ call.op = "filter"
     /\ \A T \in TypeNames : schema[T].status = "ok") =>
        /\ call.result[1] = "dict"
        /\ DOMAIN call.result[2] =
               (DOMAIN call.payload[2]) \cap (DOMAIN schema[call.type].fields)
        /\ \A k \in DOMAIN call.result[2] :
               IF call.payload[2][k][1] = "prim"
               THEN call.result[2][k] = call.payload[2][k]
               ELSE call.result[2][k] =
                       FilterByDeclaredType(schema[call.type].fields[k].tname,
                                            call.payload[2][k])

\* C14: when the introspection of the type fails (the request raises, or the
\* body has no usable type description), the filter returns the payload
\* unchanged, every key still present.
C14_FilterFailsOpen ==
    (call.op = "filter" /\ schema[call.type].status # "ok") =>
        /\ call.result = call.payload
        /\ DOMAIN call.result[2] = DOMAIN call.payload[2]

C19_NoCreateOnlyKeysOnUpdate ==
    (call.op = "update") =>
        /\ call.request.sent
        /\ (DOMAIN SentData) \cap {"kit", "kit_build", "no_air", "customs_value",
                                   "not_owned", "dropship"} = {}

\* C19 witness: the introspection of the update type gave no field list, the
\* payload went out unfiltered, and the caller's payload had the keys
C19_Witness ==
    /\ call.op = "update"
    /\ schema[UpdateProductInput].status = "fields_null"
    /\ {"kit", "dropship"} \subseteq DOMAIN call.payload[2]
    /\ {"name", "sku", "final_sale"} \subseteq DOMAIN SentData

\* C20: when the introspection of the create input type succeeds, the payload
\* of a create request has no key that the type's field list lacks.
C20_CreateSendsDeclaredKeysOnly ==
    (/\ call.op = "create"
     /\ call.request.sent
     /\ schema[shape.create_input_type_name].status = "ok") =>
        DOMAIN SentData \subseteq DOMAIN schema[shape.create_input_type_name].fields


\* the mirror row of upstream product i carries the product's latest fields
Mirrored(i) ==
    \E k \in DOMAIN table :
        /\ table[k].fulfil_id = i
        /\ table[k].code = fulfil[i].code
        /\ table[k].name = fulfil[i].name

\* C15: when upstream edits stop and runs keep executing, with pulls and
\* processing eventually succeeding, the mirror comes to hold, and keeps, a row
\* with the latest fields of every upstream product.
C15_MirrorEventuallyConsistent ==
    <>[](\A i \in DOMAIN fulfil : Mirrored(i))

\* C16: every mirror row a step writes is a row of the active mode, and each
\* mode holds at most one row per upstream product.
C16_RowsKeyedByActiveMode ==
    [][ /\ \A k \in DOMAIN table' :
             (k \notin DOMAIN table \/ table'[k] # table[k])
                 => table'[k].mode = mode
        /\ \A j, k \in DOMAIN table' :
             (table'[j].mode = table'[k].mode
                /\ table'[j].fulfil_id = table'[k].fulfil_id) => j = k ]_vars

\* the counters of run record r add up: what was pushed or skipped was
\* upserted, what was upserted was polled
CountersOrdered(r) ==
    /\ r.pushes_to_shiphero + r.skipped_no_change <= r.upserts_to_db
    /\ r.upserts_to_db <= r.total_polled

\* every polled record of run record r was counted in exactly one outcome
CountersConserved(r) ==
    r.total_polled = r.pushes_to_shiphero + r.skipped_no_change + r.errors_count

\* C29: in every state the counters of the run in progress and of every
\* committed run satisfy pushed + skipped <= upserts <= polled, and a run whose
\* status is 'success' or 'partial' has polled = pushed + skipped + errors.
C29_CounterConservation ==
    /\ CountersOrdered(run)
    /\ run.status \in {"success", "partial"} => CountersConserved(run)
    /\ \A k \in DOMAIN runs :
        /\ CountersOrdered(runs[k])
        /\ runs[k].status \in {"success", "partial"} => CountersConserved(runs[k])

\* a committed run ended 'partial' after it pushed one record and failed another
C29_Witness ==
    \E k \in DOMAIN runs :
        /\ runs[k].status = "partial"
        /\ runs[k].finished_at # NoneInt
        /\ runs[k].pushes_to_shiphero >= 1
        /\ runs[k].errors_count >= 1
        /\ runs[k].upserts_to_db < runs[k].total_polled

\* C30: every committed mirror row that stores a payload fingerprint also
\* stores a downstream id.
C30_FingerprintImpliesDownstreamId ==
    \A i \in DOMAIN mirror :
        mirror[i].shiphero_payload_hash # NoHash => mirror[i].shiphero_product_id # None

\* the upstream-derived fields of a row of the periodic sync's mirror
DerivedFields(row) == [fulfil_id |-> row.fulfil_id, code |-> row.code, name |-> row.name]

\* the upstream ids the periodic sync's mirror holds
MirroredIds(tbl) == {tbl[k].fulfil_id : k \in DOMAIN tbl}

\* C28: the periodic sync keeps at most one mirror row per upstream id, never
\* removes a mirrored upstream id, and a processed observation leaves its row
\* with exactly the observed upstream-derived fields (a full overwrite, so
\* processing the observation again gives the same content).
C28_OneRowNeverDeletedFullOverwrite ==
    [][ /\ \A j, k \in DOMAIN table' : table'[j].fulfil_id = table'[k].fulfil_id => j = k
        /\ MirroredIds(table) \subseteq MirroredIds(table')
        /\ (spc = "loop" /\ sidx' = sidx + 1 /\ shist' = shist) =>
              \E k \in DOMAIN table' :
                  /\ DerivedFields(table'[k]) = parse_product_data(slist[sidx + 1])
                  /\ DerivedFields(UpdatedProduct(table'[k], parse_product_data(slist[sidx + 1]),
                                                  table'[k].last_synced_at))
                        = DerivedFields(table'[k]) ]_vars

\* with no failure, both products were mirrored by the first run before the
\* upstream edit at instant 4, and the row of the edited product now carries
\* the new name: a later observation has overwritten it
C28_Witness ==
    /\ shist.fails = 0
    /\ Len(table) = NumProducts
    /\ \E j, k \in DOMAIN table :
        /\ j # k
        /\ table[j].last_synced_at <= 3
        /\ table[k].name = "m"
        /\ fulfil[table[k].fulfil_id].updated_at = 4

\* C28, for the delta sync: run_delta_sync never removes a mirror row, and a
\* record that passes validation leaves its row with exactly the fields of
\* _to_db_record, a missing variant name included.
C28_DeltaNeverDeletedFullOverwrite ==
    [][ /\ DOMAIN mirror \subseteq DOMAIN mirror'
        /\ \A i \in DOMAIN mirror' :
              (i \notin DOMAIN mirror \/ mirror'[i] # mirror[i]) =>
                  /\ i = Cur.id
                  /\ mirror'[i].sku = Cur.code
                  /\ mirror'[i].variant_name = Cur.variant_name
                  /\ mirror'[i].fulfil_write_date = Cur.write_date ]_vars

\* C23: for one service object and any sequence of create, update and filter
\* calls, the GetInput query of each type name is sent at most once.
C23_InputFieldsQueriedOnce ==
    \A N \in QueryNames : queried[N] <= 1

\* the create input type declares field f as required (NON_NULL outermost)
DeclaredRequired(f) ==
    LET o == Introspect(shape.create_input_type_name) IN
    /\ o.status = "ok"
    /\ f \in DOMAIN o.fields
    /\ Len(o.fields[f].wrap) >= 1
    /\ o.fields[f].wrap[1] = "NON_NULL"

\* C26: the payload create_product sends keeps every key and value of the
\* payload it was handed; the only key it may add is warehouse_products, only
\* when the create input type requires it, and then as a list of one object
\* that carries the default warehouse id; with no default warehouse id the
\* payload is sent as it came.
C26_EnsureRequiredAddsOnlyWarehouse ==
    (call.op = "create" /\ call.request.sent) =>
        LET added == (DOMAIN SentData) \ (DOMAIN call.payload[2]) IN
        /\ \A k \in DOMAIN call.payload[2] :
              k \in DOMAIN SentData /\ SentData[k] = call.payload[2][k]
        /\ added \subseteq {"warehouse_products"}
        /\ added # {} =>
              /\ DeclaredRequired("warehouse_products")
              /\ call.wh_id # None
              /\ SentData["warehouse_products"][1] = "list"
              /\ Len(SentData["warehouse_products"][2]) = 1
              /\ "warehouse_id" \in DOMAIN SentData["warehouse_products"][2][1][2]
              /\ SentData["warehouse_products"][2][1][2]["warehouse_id"] = Prim(call.wh_id)
        /\ call.wh_id = None => added = {}

\* C27: every run of the periodic sync starts with the clients, and the
\* downstream client's discovered shape, built from the configuration of the
\* mode that is active when the run starts.
C27_RunUsesActiveModeClients ==
    [][ (spc = "idle" /\ spc' = "loop") =>
            /\ clients.fulfil_service = mode
            /\ clients.shiphero_service = mode
            /\ clients.shape = mode ]_vars

\* the decision of the priority-ordered rule list: the first signal the
\* response carries decides, the full-page heuristic only when it carries none
FirstApplicableRule(data, products_count) ==
    IF data.kind = "dict" /\ data.next THEN TRUE
    ELSE IF data.kind = "dict" /\ data.has_more # "absent" THEN data.has_more = "true"
    ELSE IF data.kind = "dict" /\ data.pages THEN data.page < data.total_pages
    ELSE products_count >= PerPage

\* C24: whenever _has_more_pages has decided on a response, its decision is
\* that of the first applicable rule in the order next > has_more >
\* page/total_pages > full page.
C24_FirstApplicableRuleDecides ==
    (pager.pc = "decided" \/ (pager.requested # <<>> /\ pager.count > 0)) =>
        pager.more = FirstApplicableRule(pager.data, pager.count)

\* page p of the server ends the pull: it is empty, or it signals no more pages
StopsAt(server, p) ==
    \/ PageOf(server.n, p) = <<>>
    \/ ~FirstApplicableRule(get_products(server, p), Len(PageOf(server.n, p)))

\* C25: get_all_products requests pages 1, 2, 3, ... in order, goes on only
\* past pages that are neither empty nor signal the end, and returns the
\* records of the pages it requested, in page order.
C25_DrainsPagesInOrder ==
    LET k == Len(pager.requested) IN
    /\ pager.requested = [i \in 1..k |-> i]
    /\ pager.pc = "loop" => (pager.page = k + 1 /\ \A p \in 1..k : ~StopsAt(pager.server, p))
    /\ pager.pc \in {"done", "returned"} =>
          /\ StopsAt(pager.server, k)
          /\ \A p \in 1..(k - 1) : ~StopsAt(pager.server, p)
          /\ pager.all_products =
                [i \in 1..(IF pager.server.n < k * PerPage THEN pager.server.n
                           ELSE k * PerPage) |-> i]

\* the introspection answered with the mutation fields, every argument list a
\* list of argument objects
WellFormed(resp) ==
    /\ resp.status = "ok"
    /\ ~resp.create.args_null
    /\ ~resp.update.args_null
    /\ \A k \in DOMAIN resp.create.args : ~resp.create.args[k].bad
    /\ \A k \in DOMAIN resp.update.args : ~resp.update.args[k].bad

\* the names of the update mutation's arguments typed ID or String
IdTypedNames(resp) ==
    {resp.update.args[k].name : k \in {j \in DOMAIN resp.update.args :
                                          resp.update.args[j].type.tname \in {"ID", "String"}}}

\* the first of id, legacy_id, sku, product_id in the set S, None without one
Preferred(S) ==
    IF "id" \in S THEN "id"
    ELSE IF "legacy_id" \in S THEN "legacy_id"
    ELSE IF "sku" \in S THEN "sku"
    ELSE IF "product_id" \in S THEN "product_id"
    ELSE None

\* C21: after the introspection of a schema, the update identifier argument
\* is the first of id, legacy_id, sku, product_id among the update mutation's
\* arguments typed ID or String, whatever their order in the schema, and is
\* absent when none of them is.
C21_IdentifierByPriority ==
    (call.op = "detected" /\ WellFormed(call.resp)) =>
        shape.update_id_arg_name = Preferred(IdTypedNames(call.resp))

\* the schema lists sku before id, one more String argument comes first, and
\* id was chosen
C21_Witness ==
    /\ call.op = "detected"
    /\ WellFormed(call.resp)
    /\ Len(call.resp.update.args) = 3
    /\ call.resp.update.args[1].name = "customer_account_id"
    /\ call.resp.update.args[2].name = "sku"
    /\ call.resp.update.args[3] = Arg("id", Req("ID"))
    /\ shape.update_id_arg_name = "id"

\* C22: when the introspection query fails or its response is malformed, the
\* shape of the constructed client is exactly the hardcoded fallback.
C22_FallbackIsExact ==
    (call.op = "detected" /\ ~WellFormed(call.resp)) => shape = DefaultShape
====
